---- MODULE Spec2Model ----
(***************************************************************************)
(* A model of trendies (src/app.py): the TTL cache in front of the trend   *)
(* analysis, the per-asset choice of an exchange with fallback, the fetch  *)
(* of the daily closes, the indicators, and the update_data cycle that     *)
(* builds the portfolio and watchlist reports.                             *)
(*                                                                         *)
(* Conventions.  Time is counted in half seconds, so that time.sleep(0.5)  *)
(* is one unit.  A candle list is modelled by the list of its closes       *)
(* (x[4] is the only field the code reads).  A price is an exact rational  *)
(* <<n, d>> in lowest terms with d > 0 (the code uses floats).  A Python   *)
(* dict is a record, and "key in dict" is "key \in DOMAIN record".  A      *)
(* Python list stored in the cache is the record [list |-> <<...>>].  None  *)
(* is the string "None" where the other values are strings.  An operation  *)
(* that can raise returns [raised |-> TRUE, msg |-> ..] or                  *)
(* [raised |-> FALSE, value |-> ..].                                       *)
(***************************************************************************)
EXTENDS Integers, Sequences, FiniteSets, TLC

(***************************************************************************)
(* Program constants                                                       *)
(***************************************************************************)
OHLCV_TTL == 600          \* ttl=300 seconds of ohlcv_cache
OHLCV_MAXSIZE == 100      \* maxsize of ohlcv_cache
EXCHANGE_TTL == 7200      \* ttl=3600 seconds of exchange_cache
EXCHANGE_MAXSIZE == 20    \* maxsize of exchange_cache
SLEEP == 1                \* time.sleep(0.5)

(***************************************************************************)
(* Bounds of the model                                                     *)
(***************************************************************************)
\* A venue's answer other than "connects, returns DefaultSeries" is a fault.
MaxEvents == 4            \* direct callers: calls that miss, faults, clock jumps and clears
MaxFaults == 2            \* update_data: venues that are not up during a cycle
MaxCycles == 2            \* update_data: cycles in one behaviour
MaxCalls == 2             \* threads: calls of get_cached_data by each thread
MaxLen == 8               \* pure functions: closes given to calculate_performance
MaxPair == 3              \* pure functions: closes of each series of the cross rate

(***************************************************************************)
(* The venues and the configured assets                                    *)
(***************************************************************************)
\* The exchange classes of ccxt that the program names.
CcxtVenues == {"coinbase", "mexc", "gate", "bitget", "xt", "kucoin", "bitmart", "bingx"}

portfolio_assets ==
  << [symbol |-> "BTC", chain |-> "None"],
     [symbol |-> "ETH", chain |-> "None"],
     [symbol |-> "SOL", chain |-> "None"],
     [symbol |-> "BANANA", chain |-> "ethereum"],
     [symbol |-> "NATIX", chain |-> "solana"],
     [symbol |-> "TIG", chain |-> "base"],
     [symbol |-> "FAI", chain |-> "base"] >>

watchlist_assets ==
  << [symbol |-> "AAVE", chain |-> "None", preferred_exchange |-> "coinbase"],
     [symbol |-> "BNB", chain |-> "None", preferred_exchange |-> "mexc"],
     [symbol |-> "TAO", chain |-> "None", preferred_exchange |-> "coinbase"],
     [symbol |-> "JUP", chain |-> "None", preferred_exchange |-> "mexc"] >>

Range(s) == {s[i] : i \in 1..Len(s)}

Bases == {a.symbol : a \in Range(portfolio_assets)} \cup {a.symbol : a \in Range(watchlist_assets)}
Quotes == {"USD", "BTC"}

\* Mutant: the key leaves the asset out.
CacheKey_QuoteOnly(base, quote) == "BTC_" \o quote

\* cache_key = f"{base_symbol}_{quote_symbol}"
CacheKey(base, quote) == base \o "_" \o quote

BTC_PRICE_KEY == "btc_price"
Keys == {CacheKey(b, q) : b \in Bases, q \in Quotes} \cup {BTC_PRICE_KEY}

(***************************************************************************)
(* Exact arithmetic on prices                                              *)
(***************************************************************************)
Abs(n) == IF n < 0 THEN -n ELSE n

RECURSIVE GCD(_, _)
GCD(a, b) == IF b = 0 THEN a ELSE GCD(b, a % b)

\* The rational n/d (d # 0) in lowest terms, with a positive denominator.
Rat(n, d) ==
  LET g == GCD(Abs(n), Abs(d))
      s == IF d < 0 THEN -1 ELSE 1
  IN  << (s * n) \div g, (s * d) \div g >>

RatInt(n) == << n, 1 >>
RatAdd(a, b) == Rat(a[1] * b[2] + b[1] * a[2], a[2] * b[2])
RatSub(a, b) == Rat(a[1] * b[2] - b[1] * a[2], a[2] * b[2])
RatMul(a, b) == Rat(a[1] * b[1], a[2] * b[2])
RatDiv(a, b) == Rat(a[1] * b[2], a[2] * b[1])
RatLess(a, b) == a[1] * b[2] < b[1] * a[2]
RatIsZero(a) == a[1] = 0

\* None in a numeric field.
NoneNum == << >>

(***************************************************************************)
(* The trend engine                                                        *)
(***************************************************************************)
\* The recurrence of pandas' ewm(span=periods, adjust=False).mean():
\* y[1] = x[1], y[t] = (1 - a) * y[t-1] + a * x[t] with a = 2 / (periods + 1).
RECURSIVE EwmMean(_, _, _)
EwmMean(data, periods, t) ==
  IF t = 1 THEN data[1]
  ELSE RatAdd(RatMul(Rat(periods - 1, periods + 1), EwmMean(data, periods, t - 1)),
              RatMul(Rat(2, periods + 1), data[t]))

\* calculate_ema: .iloc[-1] of the mean; on an empty series .iloc[-1] raises IndexError.
calculate_ema(data, periods) ==
  IF Len(data) = 0
    THEN [raised |-> TRUE, msg |-> "single positional indexer is out-of-bounds"]
    ELSE [raised |-> FALSE, value |-> EwmMean(data, periods, Len(data))]

\* Mutant: the reference close is taken one day too far back.
calculate_performance_OneMore(closes, days) ==
  IF Len(closes) > days
    THEN LET current_price == closes[Len(closes)]
             past_price == closes[Len(closes) - days]
         IN  IF ~RatIsZero(past_price)
               THEN RatMul(RatDiv(RatSub(current_price, past_price), past_price), RatInt(100))
               ELSE NoneNum
    ELSE NoneNum

\* calculate_performance: None unless len(closes) >= days and closes[-days] != 0.
calculate_performance(closes, days) ==
  IF Len(closes) >= days
    THEN LET current_price == closes[Len(closes)]
             past_price == closes[Len(closes) - days + 1]
         IN  IF ~RatIsZero(past_price)
               THEN RatMul(RatDiv(RatSub(current_price, past_price), past_price), RatInt(100))
               ELSE NoneNum
    ELSE NoneNum

Min(a, b) == IF a < b THEN a ELSE b

\* Mutant: the two series are paired from their ends (their latest candles).
CrossRate_FromEnd(token_ohlcv, btc_ohlcv) ==
  LET n == Min(Len(token_ohlcv), Len(btc_ohlcv))
  IN  IF \E i \in 1..n : btc_ohlcv[Len(btc_ohlcv) - n + i] = 0
        THEN [raised |-> TRUE, msg |-> "float division by zero"]
        ELSE [raised |-> FALSE,
              value |-> [i \in 1..n |-> Rat(token_ohlcv[Len(token_ohlcv) - n + i],
                                            btc_ohlcv[Len(btc_ohlcv) - n + i])]]

\* The loop that builds closes on the BTC path: token close over BTC close, index by
\* index, over the shorter length; a BTC close of 0 raises ZeroDivisionError.
CrossRate(token_ohlcv, btc_ohlcv) ==
  LET n == Min(Len(token_ohlcv), Len(btc_ohlcv))
  IN  IF \E i \in 1..n : btc_ohlcv[i] = 0
        THEN [raised |-> TRUE, msg |-> "float division by zero"]
        ELSE [raised |-> FALSE,
              value |-> [i \in 1..n |-> Rat(token_ohlcv[i], btc_ohlcv[i])]]

\* closes = [x[4] for x in ohlcv]
Closes(ohlcv) == [i \in 1..Len(ohlcv) |-> RatInt(ohlcv[i])]

(***************************************************************************)
(* The exchange resolver                                                   *)
(***************************************************************************)
\* exchanges_to_try of get_exchange_for_asset; << >> for an asset with no such list.
ExchangesToTry(base_symbol) ==
  CASE base_symbol = "BANANA" -> << "mexc", "gate", "bitget" >>
    [] base_symbol = "NATIX"  -> << "kucoin", "gate", "mexc" >>
    [] base_symbol = "FAI"    -> << "bitmart", "bingx" >>
    [] OTHER                  -> << >>

\* The exchange of an asset that has neither a preferred exchange nor a list.
FixedExchange(base_symbol) ==
  CASE base_symbol \in {"BTC", "ETH", "SOL"} -> "coinbase"
    [] base_symbol = "TIG" -> "xt"
    [] OTHER -> "coinbase"

\* actual_quote and symbol_pair of fetch_analysis.
ActualQuote(exchange_id) == IF exchange_id = "coinbase" THEN "USD" ELSE "USDT"

SymbolPair(base_symbol, exchange_id) ==
  CASE base_symbol = "BANANA" /\ exchange_id = "mexc"   -> "BANANA/USDT"
    [] base_symbol = "BANANA" /\ exchange_id = "gate"   -> "BANANA_USDT"
    [] base_symbol = "BANANA" /\ exchange_id = "bitget" -> "BANANA/USDT"
    [] base_symbol = "TIG"                              -> "TIG/USDT"
    [] base_symbol = "NATIX" /\ exchange_id = "kucoin"  -> "NATIX-USDT"
    [] base_symbol = "NATIX" /\ exchange_id = "gate"    -> "NATIX_USDT"
    [] base_symbol = "FAI" /\ exchange_id = "bitmart"   -> "FAI/USDT"
    [] base_symbol = "FAI" /\ exchange_id = "bingx"     -> "FAI/USDT"
    [] OTHER -> base_symbol \o "/" \o ActualQuote(exchange_id)

(***************************************************************************)
(* The results fetch_analysis returns                                      *)
(***************************************************************************)
\* The result when get_exchange_for_asset raised: no exchange field.
ResolveError(r, msg) ==
  [symbol |-> r.base \o "/" \o r.quote, error |-> msg, chain |-> r.chain]

\* The result when the token series is empty, on the BTC path and on the USD path.
NoPriceData(r, exchange_id) ==
  [symbol |-> SymbolPair(r.base, exchange_id), error |-> "No price data available",
   chain |-> r.chain, exchange |-> exchange_id]

NoData(r, exchange_id) ==
  [symbol |-> SymbolPair(r.base, exchange_id),
   error |-> "No data available on " \o exchange_id,
   chain |-> r.chain, exchange |-> exchange_id]

\* Mutant: the except clause leaves the exchange out of its result.
ErrorOn_NoExchange(r, exchange_id, msg) ==
  [symbol |-> r.base \o "/" \o r.quote,
   error |-> "Error on " \o exchange_id \o ": " \o msg,
   chain |-> r.chain]

\* The result of the except clause around the fetch and the computation.
ErrorOn(r, exchange_id, msg) ==
  [symbol |-> r.base \o "/" \o r.quote,
   error |-> "Error on " \o exchange_id \o ": " \o msg,
   chain |-> r.chain, exchange |-> exchange_id]

\* Mutant: equal averages count as an uptrend.
SuccessResult_UpOnEqual(r, exchange_id, current_price, ema8, ema20, perf_7d, perf_14d, timestamp) ==
  [symbol |-> SymbolPair(r.base, exchange_id),
   current_price |-> current_price,
   ema8 |-> ema8,
   ema20 |-> ema20,
   is_uptrend |-> ~RatLess(ema8, ema20),
   trend_text |-> IF ~RatLess(ema8, ema20) THEN "Uptrend" ELSE "Downtrend",
   quote_currency |-> r.quote,
   chain |-> r.chain,
   exchange |-> exchange_id,
   is_calculated |-> (r.quote = "BTC"),
   timestamp |-> timestamp,
   perf_7d |-> perf_7d,
   perf_14d |-> perf_14d]

\* The success result, given the indicators.
SuccessResult(r, exchange_id, current_price, ema8, ema20, perf_7d, perf_14d, timestamp) ==
  [symbol |-> SymbolPair(r.base, exchange_id),
   current_price |-> current_price,
   ema8 |-> ema8,
   ema20 |-> ema20,
   is_uptrend |-> RatLess(ema20, ema8),
   trend_text |-> IF RatLess(ema20, ema8) THEN "Uptrend" ELSE "Downtrend",
   quote_currency |-> r.quote,
   chain |-> r.chain,
   exchange |-> exchange_id,
   is_calculated |-> (r.quote = "BTC"),
   timestamp |-> timestamp,
   perf_7d |-> perf_7d,
   perf_14d |-> perf_14d]

\* Mutant: empty closes give a result whose indicators are zero instead of an error.
Analysis_ZeroOnEmpty(r, exchange_id, closes, timestamp) ==
  IF Len(closes) = 0
    THEN SuccessResult(r, exchange_id, RatInt(0), RatInt(0), RatInt(0), NoneNum, NoneNum,
                       timestamp)
    ELSE SuccessResult(r, exchange_id, closes[Len(closes)],
                       calculate_ema(closes, 8).value, calculate_ema(closes, 20).value,
                       calculate_performance(closes, 7), calculate_performance(closes, 14),
                       timestamp)

\* The indicators and the result: calculate_ema, and closes[-1], raise on empty
\* closes, and the except clause turns that into an error result.
Analysis(r, exchange_id, closes, timestamp) ==
  LET ema8 == calculate_ema(closes, 8)
      ema20 == calculate_ema(closes, 20)
  IN  IF ema8.raised THEN ErrorOn(r, exchange_id, ema8.msg)
      ELSE IF ema20.raised THEN ErrorOn(r, exchange_id, ema20.msg)
      ELSE IF Len(closes) = 0 THEN ErrorOn(r, exchange_id, "list index out of range")
      ELSE SuccessResult(r, exchange_id, closes[Len(closes)], ema8.value, ema20.value,
                         calculate_performance(closes, 7), calculate_performance(closes, 14),
                         timestamp)

(***************************************************************************)
(* The TTL caches (cachetools.TTLCache)                                    *)
(***************************************************************************)
Absent == [present |-> FALSE]

\* Mutant: an entry is still served at the instant its time runs out.
Contains_ServesAtExpiry(cache, key, t) == cache[key].present /\ t <= cache[key].expires

\* key in cache: the entry is there and its time has not run out.
Contains(cache, key, t) == cache[key].present /\ t < cache[key].expires

\* TTLCache.expire: the entries whose time has run out are dropped.
Expire(cache, t) ==
  [k \in DOMAIN cache |-> IF Contains(cache, k, t) THEN cache[k] ELSE Absent]

\* cache[key] = value at time t.  The keys of the model are fewer than maxsize, so
\* that the eviction of TTLCache.__setitem__ never runs.
Store(cache, key, value, t, ttl) ==
  [Expire(cache, t) EXCEPT ![key] = [present |-> TRUE, value |-> value, expires |-> t + ttl]]

\* Mutant: clear() leaves the entries in place.
Clear_KeepsEntries(cache) == cache

\* cache.clear()
Clear(cache) == [k \in DOMAIN cache |-> Absent]

(***************************************************************************)
(* The venues' answers                                                     *)
(***************************************************************************)
DefaultSeries == << 4, 6 >>
Raised(msg) == [raised |-> TRUE, msg |-> msg]
Returned(v) == [raised |-> FALSE, value |-> v]

\* What fetch_ohlcv can do: raise, or return the closes of up to `limit` candles.
TokenOutcomes ==
  {Raised("NetworkError"), Returned(<< >>), Returned(DefaultSeries)}
BtcOutcomes ==
  {Raised("NetworkError"), Returned(<< >>), Returned(DefaultSeries), Returned(<< 2 >>),
   Returned(<< 2, 0 >>)}

\* The answers other than "the venue connects and returns DefaultSeries".
IsFault(out) == out # Returned(DefaultSeries)

(***************************************************************************)
(* The state                                                               *)
(***************************************************************************)
VARIABLES
  now,                 \* the clock, in half seconds
  ohlcv_cache,         \* ohlcv_cache: key -> Absent or [present, value, expires]
  exchange_cache,      \* exchange_cache: venue -> Absent or [present, value, expires]
  pc,                  \* where the get_trend_analysis call in progress stands
  req,                 \* its arguments [base, quote, chain, pref]
  attempt,             \* how many entries of exchanges_to_try it has tried
  exchange,            \* the id of the exchange it obtained, or "None"
  token_ohlcv,         \* the token's closes once fetched, as [list |-> ..], else Absent
  closes,              \* the closes the indicators are computed on
  result,              \* what the last call returned
  upc,                 \* where update_data stands
  idx,                 \* the index of the asset update_data is processing
  usdt_analysis,       \* update_data's usdt_analysis
  portfolio_analysis,  \* update_data's portfolio_analysis
  watchlist_analysis,  \* update_data's watchlist_analysis
  trace,               \* history: the venue calls of the call in progress
  hist,                \* history: per key, the last producer run since the last clear
  prev,                \* history: hist[key] of the call in progress when it began
  last,                \* history: the last get_cached_data call that returned
  lastBuild,           \* history: the last construction of an exchange handle
  built,               \* history: per venue, when a handle was last constructed
  venue_state,         \* the state of each venue while update_data runs
  events, cycles,      \* the counters the bounds cap
  callers,             \* concurrent callers of get_cached_data: where each one stands
  applied              \* the last application of one of the pure functions

callVars == << pc, req, attempt, exchange, token_ohlcv, closes, result >>
cycleVars == << upc, idx, usdt_analysis, portfolio_analysis, watchlist_analysis >>
histVars == << trace, hist, prev, last, lastBuild, built >>
countVars == << events, cycles >>
otherVars == << callers, applied >>
vars == << now, ohlcv_cache, exchange_cache, venue_state, callVars, cycleVars, histVars,
          countVars, otherVars >>

NoRequest == [base |-> "None", quote |-> "None", chain |-> "None", pref |-> ""]
NoHist == [invoked |-> FALSE]
NoCall == [called |-> FALSE]
NoBuild == [venue |-> "None"]
NoResult == [none |-> TRUE]
NoCaller == [pc |-> "idle", key |-> "None", n |-> 0, invoked |-> FALSE, rivals |-> {}]
NotApplied == [op |-> "None"]
Threads == {"A", "B"}

Start ==
  /\ now = 0
  /\ ohlcv_cache = [k \in Keys |-> Absent]
  /\ exchange_cache = [v \in CcxtVenues |-> Absent]
  /\ pc = "Idle"
  /\ req = NoRequest
  /\ attempt = 0
  /\ exchange = "None"
  /\ token_ohlcv = Absent
  /\ closes = << >>
  /\ result = NoResult
  /\ upc = "idle"
  /\ idx = 0
  /\ usdt_analysis = NoResult
  /\ portfolio_analysis = << >>
  /\ watchlist_analysis = << >>
  /\ trace = << >>
  /\ hist = [k \in Keys |-> NoHist]
  /\ prev = [start |-> 0, hist |-> NoHist]
  /\ last = NoCall
  /\ lastBuild = NoBuild
  /\ built = [v \in CcxtVenues |-> -1]
  /\ events = 0
  /\ cycles = 0
  /\ callers = [t \in Threads |-> NoCaller]
  /\ applied = NotApplied

\* Direct callers: the venues' states play no part.
Init == Start /\ venue_state = [v \in CcxtVenues |-> "up"]

(***************************************************************************)
(* get_cached_data                                                         *)
(***************************************************************************)
\* Mutant: the error of a producer that raised is stored like a value.
MissEffect_StoresError(cache, key, out, t) ==
  LET v == IF out.raised THEN [error |-> out.msg] ELSE out.value
      c == Store(cache, key, v, t, OHLCV_TTL)
  IN  [cache |-> c, slept |-> IF out.raised THEN 0 ELSE SLEEP, value |-> c[key].value]

\* The miss branch, given what the producer did at time t: the cache afterwards,
\* the time slept and the value returned.  A producer that raises stores nothing
\* and skips the sleep; the caller gets {"error": str(e)}.
MissEffect(cache, key, out, t) ==
  IF out.raised
    THEN [cache |-> cache, slept |-> 0, value |-> [error |-> out.msg]]
    ELSE LET c == Store(cache, key, out.value, t, OHLCV_TTL)
         IN  [cache |-> c, slept |-> SLEEP, value |-> c[key].value]

\* The end of a get_cached_data call that missed: `out` is what the producer did,
\* `tr` the venue calls it made, `began` the call's start and the key's history then.
Complete(key, out, tr, began) ==
  LET e == MissEffect(ohlcv_cache, key, out, now)
  IN  /\ ohlcv_cache' = e.cache
      /\ now' = now + e.slept
      /\ result' = e.value
      /\ pc' = "Done"
      /\ trace' = tr
      /\ hist' = [hist EXCEPT ![key] =
                    [invoked |-> TRUE, at |-> now, raised |-> out.raised, value |-> e.value,
                     trace |-> tr]]
      /\ last' = [called |-> TRUE, key |-> key, hit |-> FALSE, raised |-> out.raised,
                  slept |-> e.slept, value |-> e.value, start |-> began.start,
                  prev |-> began.hist]

\* The hit branch: the stored value is returned, the producer is not called.
Hit(key) ==
  /\ result' = ohlcv_cache[key].value
  /\ pc' = "Done"
  /\ last' = [called |-> TRUE, key |-> key, hit |-> TRUE, raised |-> FALSE,
              slept |-> 0, value |-> ohlcv_cache[key].value, start |-> now,
              prev |-> hist[key]]
  /\ UNCHANGED << ohlcv_cache, now, hist >>

\* An exchange handle is constructed (history only: the code keeps no record).
BuildHandle(v) ==
  /\ lastBuild' = [venue |-> v, at |-> now, prevAt |-> built[v]]
  /\ built' = [built EXCEPT ![v] = now]

\* The answers of the venues.  To a direct caller a venue answers anything, and a
\* fault is counted against MaxEvents.  While update_data runs a venue answers as
\* its state dictates: "down" (load_markets and fetch_ohlcv
\* raise), "fetch_fails" (it connects, fetch_ohlcv raises), "empty" (it connects,
\* fetch_ohlcv returns no candle), "up".
ConnectAnswer(v, ok) ==
  IF upc = "idle"
    THEN /\ ~ok => events < MaxEvents
         /\ events' = IF ok THEN events ELSE events + 1
    ELSE /\ ok = (venue_state[v] # "down")
         /\ UNCHANGED events

FetchAnswer(v, out) ==
  IF upc = "idle"
    THEN /\ IsFault(out) => events < MaxEvents
         /\ events' = IF IsFault(out) THEN events + 1 ELSE events
    ELSE /\ out = CASE venue_state[v] = "up" -> Returned(DefaultSeries)
                    [] venue_state[v] = "empty" -> Returned(<< >>)
                    [] OTHER -> Raised("NetworkError")
         /\ UNCHANGED events

(***************************************************************************)
(* get_trend_analysis, step by step                                        *)
(***************************************************************************)
\* The call: get_cached_data looks the key up; on a miss fetch_analysis starts.
BeginCall(r) ==
  LET key == CacheKey(r.base, r.quote)
  IN  /\ req' = r
      /\ attempt' = 0
      /\ exchange' = "None"
      /\ token_ohlcv' = Absent
      /\ closes' = << >>
      /\ trace' = << >>
      /\ prev' = [start |-> now, hist |-> hist[key]]
      /\ UNCHANGED << exchange_cache, venue_state, otherVars, lastBuild, built >>
      /\ IF Contains(ohlcv_cache, key, now)
           THEN Hit(key)
           ELSE /\ pc' = "ResolvingVenue"
                /\ UNCHANGED << ohlcv_cache, now, result, hist, last >>

ReqKey == CacheKey(req.base, req.quote)

\* fetch_analysis returns v: get_cached_data stores it, sleeps and returns it.
Finish(v, tr) == Complete(ReqKey, Returned(v), tr, prev)

\* Mutant: the asset's list is looked at before the preferred exchange.
UsesPreferred_AfterList(r) == r.pref # "" /\ ExchangesToTry(r.base) = << >>

\* if preferred_exchange: the first test of get_exchange_for_asset.
UsesPreferred(r) == r.pref # ""

\* get_exchange_for_asset with a preferred exchange: getattr(ccxt, name)(); a name
\* ccxt does not have raises AttributeError, which fetch_analysis turns into a result.
ResolvePreferred ==
  /\ pc = "ResolvingVenue"
  /\ UsesPreferred(req)
  /\ IF req.pref \in CcxtVenues
       THEN /\ exchange' = req.pref
            /\ pc' = "Fetching"
            /\ BuildHandle(req.pref)
            /\ trace' = Append(trace, [op |-> "construct", venue |-> req.pref, ok |-> TRUE])
            /\ UNCHANGED << ohlcv_cache, now, result, hist, last >>
       ELSE /\ Finish(ResolveError(req, "module 'ccxt' has no attribute '" \o req.pref \o "'"),
                   Append(trace, [op |-> "construct", venue |-> req.pref, ok |-> FALSE]))
            /\ UNCHANGED << exchange, lastBuild, built >>
  /\ UNCHANGED << exchange_cache, venue_state, otherVars, req, attempt, token_ohlcv, closes, prev,
                  cycleVars, countVars >>

\* get_exchange_for_asset for an asset with one fixed exchange.
ResolveFixed ==
  /\ pc = "ResolvingVenue"
  /\ ~UsesPreferred(req)
  /\ ExchangesToTry(req.base) = << >>
  /\ exchange' = FixedExchange(req.base)
  /\ pc' = "Fetching"
  /\ BuildHandle(FixedExchange(req.base))
  /\ trace' = Append(trace, [op |-> "construct", venue |-> FixedExchange(req.base), ok |-> TRUE])
  /\ UNCHANGED << now, ohlcv_cache, exchange_cache, venue_state, otherVars, req, attempt, token_ohlcv,
                  closes, result, hist, prev, last, cycleVars, countVars >>

\* Mutant: the loop tries the first entry again.
NextToTry_First(base_symbol, n) == ExchangesToTry(base_symbol)[1]

\* The entry of exchanges_to_try the loop tries next.
NextToTry(base_symbol, n) == ExchangesToTry(base_symbol)[n + 1]

\* Mutant: the exchange is returned even when load_markets() raised.
ConnectResult_Always(ok, v, current) == [exchange |-> v, pc |-> "Fetching"]

\* Mutant: once connected, the call goes on to the indicators without a fetch.
ConnectResult_SkipsFetch(ok, v, current) ==
  IF ok THEN [exchange |-> v, pc |-> "Computing"]
        ELSE [exchange |-> current, pc |-> "ResolvingVenue"]

\* The try of one turn: load_markets() returned (return exchange) or raised (continue).
ConnectResult(ok, v, current) ==
  IF ok THEN [exchange |-> v, pc |-> "Fetching"]
        ELSE [exchange |-> current, pc |-> "ResolvingVenue"]

\* One turn of the loop over exchanges_to_try: the handle is constructed and
\* load_markets() either returns (the exchange is chosen) or raises (continue).
ConnectAttempt(ok) ==
  /\ pc = "ResolvingVenue"
  /\ ~UsesPreferred(req)
  /\ attempt < Len(ExchangesToTry(req.base))
  /\ LET v == NextToTry(req.base, attempt)
     IN  /\ ConnectAnswer(v, ok)
         /\ BuildHandle(v)
         /\ trace' = Append(trace, [op |-> "connect", venue |-> v, ok |-> ok])
         /\ attempt' = attempt + 1
         /\ exchange' = ConnectResult(ok, v, exchange).exchange
         /\ pc' = ConnectResult(ok, v, exchange).pc
  /\ UNCHANGED << now, ohlcv_cache, exchange_cache, req, token_ohlcv, closes, result,
                  hist, prev, last, venue_state, otherVars, cycleVars, cycles >>

\* The loop ran out: get_exchange_for_asset raises, fetch_analysis returns the error.
ResolveExhausted ==
  /\ pc = "ResolvingVenue"
  /\ ~UsesPreferred(req)
  /\ ExchangesToTry(req.base) # << >>
  /\ attempt = Len(ExchangesToTry(req.base))
  /\ Finish(ResolveError(req, "Could not connect to any exchange for " \o req.base), trace)
  /\ UNCHANGED << exchange_cache, venue_state, otherVars, req, attempt, exchange, token_ohlcv, closes,
                  prev, lastBuild, built, cycleVars, countVars >>

\* What fetch_analysis does with the token's series: on the BTC path an empty
\* series ends it with "No price data available", on the USD path with "No data
\* available on <exchange>"; a fetch that raises ends it in the except clause.
TokenStep(r, exchange_id, out) ==
  IF out.raised THEN [done |-> TRUE, value |-> ErrorOn(r, exchange_id, out.msg)]
  ELSE IF out.value = << >>
    THEN [done |-> TRUE,
          value |-> IF r.quote = "BTC" THEN NoPriceData(r, exchange_id)
                                       ELSE NoData(r, exchange_id)]
  ELSE [done |-> FALSE]

\* exchange.fetch_ohlcv(symbol_pair, '1d', limit=50)
FetchToken(out) ==
  /\ pc = "Fetching"
  /\ token_ohlcv = Absent
  /\ FetchAnswer(exchange, out)
  /\ LET step == TokenStep(req, exchange, out)
         tr == Append(trace, [op |-> "fetch", venue |-> exchange,
                              symbol |-> SymbolPair(req.base, exchange), out |-> out])
     IN  IF step.done
           THEN /\ Finish(step.value, tr)
                /\ UNCHANGED << token_ohlcv, closes >>
           ELSE /\ trace' = tr
                /\ token_ohlcv' = [list |-> out.value]
                /\ closes' = IF req.quote = "BTC" THEN closes ELSE Closes(out.value)
                /\ pc' = IF req.quote = "BTC" THEN "Fetching" ELSE "Computing"
                /\ UNCHANGED << ohlcv_cache, now, result, hist, last >>
  /\ UNCHANGED << exchange_cache, req, attempt, exchange, prev, lastBuild, built, venue_state, otherVars,
                  cycleVars, cycles >>

\* What fetch_analysis does with the BTC/USD series on the BTC path.
BtcStep(r, exchange_id, token, out) ==
  IF out.raised THEN [done |-> TRUE, value |-> ErrorOn(r, exchange_id, out.msg)]
  ELSE LET cr == CrossRate(token, out.value)
       IN  IF cr.raised THEN [done |-> TRUE, value |-> ErrorOn(r, exchange_id, cr.msg)]
           ELSE [done |-> FALSE, closes |-> cr.value]

\* btc_exchange = ccxt.coinbase(); btc_exchange.fetch_ohlcv('BTC/USD', '1d', limit=50)
\* and the loop that divides the two series.
FetchBtcRef(out) ==
  /\ pc = "Fetching"
  /\ req.quote = "BTC"
  /\ token_ohlcv # Absent
  /\ FetchAnswer("coinbase", out)
  /\ BuildHandle("coinbase")
  /\ LET step == BtcStep(req, exchange, token_ohlcv.list, out)
         tr == Append(trace, [op |-> "fetch", venue |-> "coinbase", symbol |-> "BTC/USD",
                              out |-> out])
     IN  IF step.done
           THEN /\ Finish(step.value, tr)
                /\ UNCHANGED closes
           ELSE /\ trace' = tr
                /\ closes' = step.closes
                /\ pc' = "Computing"
                /\ UNCHANGED << ohlcv_cache, now, result, hist, last >>
  /\ UNCHANGED << exchange_cache, req, attempt, exchange, token_ohlcv, prev, venue_state, otherVars,
                  cycleVars, cycles >>

\* The indicators, the result, and the end of the call.
Compute ==
  /\ pc = "Computing"
  /\ Finish(Analysis(req, exchange, closes, now), trace)
  /\ UNCHANGED << exchange_cache, venue_state, otherVars, req, attempt, exchange, token_ohlcv, closes,
                  prev, lastBuild, built, cycleVars, countVars >>

(***************************************************************************)
(* Direct callers of the module's functions                                *)
(***************************************************************************)
Request(b, q, c, p) == [base |-> b, quote |-> q, chain |-> c, pref |-> p]

\* The calls the direct callers of the model make.
ApiRequests ==
  { Request("NATIX", "USD", "solana", ""), Request("NATIX", "BTC", "solana", ""),
    Request("NATIX", "USD", "solana", "mexc"),
    Request("ETH", "USD", "None", ""), Request("AAVE", "BTC", "None", "mexc"),
    Request("AAVE", "USD", "None", "bogus") }

\* get_trend_analysis(base_symbol, quote_symbol, chain, preferred_exchange)
ApiCall(r) ==
  /\ pc \in {"Idle", "Done"}
  /\ upc = "idle"
  /\ Contains(ohlcv_cache, CacheKey(r.base, r.quote), now) \/ events < MaxEvents
  /\ events' = IF Contains(ohlcv_cache, CacheKey(r.base, r.quote), now)
                 THEN events ELSE events + 1
  /\ BeginCall(r)
  /\ UNCHANGED << cycleVars, cycles >>

\* get_btc_price(): get_cached_data('btc_price', fetch), where fetch constructs
\* coinbase, fetches BTC/USD and returns the closes, or raises.
CallBtcPrice(out) ==
  /\ pc \in {"Idle", "Done"}
  /\ upc = "idle"
  /\ req' = NoRequest
  /\ attempt' = 0
  /\ exchange' = "None"
  /\ token_ohlcv' = Absent
  /\ closes' = << >>
  /\ prev' = [start |-> now, hist |-> hist[BTC_PRICE_KEY]]
  /\ IF Contains(ohlcv_cache, BTC_PRICE_KEY, now)
       THEN /\ Hit(BTC_PRICE_KEY)
            /\ trace' = << >>
            /\ UNCHANGED << lastBuild, built, events >>
       ELSE /\ events + (IF IsFault(out) THEN 1 ELSE 0) < MaxEvents
            /\ events' = events + 1 + (IF IsFault(out) THEN 1 ELSE 0)
            /\ BuildHandle("coinbase")
            /\ Complete(BTC_PRICE_KEY,
                        IF out.raised THEN out ELSE Returned([list |-> out.value]),
                        << [op |-> "fetch", venue |-> "coinbase", symbol |-> "BTC/USD",
                            out |-> out] >>,
                        [start |-> now, hist |-> hist[BTC_PRICE_KEY]])
  /\ UNCHANGED << exchange_cache, venue_state, otherVars, cycleVars, cycles >>

\* ohlcv_cache.clear(); exchange_cache.clear()
ClearCaches ==
  /\ pc \in {"Idle", "Done"}
  /\ upc = "idle"
  /\ ohlcv_cache' = Clear(ohlcv_cache)
  /\ exchange_cache' = Clear(exchange_cache)
  /\ hist' = [k \in Keys |-> NoHist]
  /\ built' = [v \in CcxtVenues |-> -1]
  /\ events < MaxEvents
  /\ events' = events + 1
  /\ UNCHANGED << now, venue_state, otherVars, callVars, cycleVars, trace, prev, last, lastBuild, cycles >>

\* Time passes.
TickAmounts == {OHLCV_TTL - 2 * SLEEP, OHLCV_TTL - SLEEP}

Tick(d) ==
  /\ pc \in {"Idle", "Done"}
  /\ upc = "idle"
  /\ events < MaxEvents
  /\ events' = events + 1
  /\ now' = now + d
  /\ UNCHANGED << ohlcv_cache, exchange_cache, venue_state, otherVars, callVars, cycleVars, histVars,
                  cycles >>

Steps ==
  \/ ResolvePreferred
  \/ ResolveFixed
  \/ \E ok \in BOOLEAN : ConnectAttempt(ok)
  \/ ResolveExhausted
  \/ \E out \in TokenOutcomes : FetchToken(out)
  \/ \E out \in BtcOutcomes : FetchBtcRef(out)
  \/ Compute

Next ==
  \/ \E r \in ApiRequests : ApiCall(r)
  \/ \E out \in TokenOutcomes : CallBtcPrice(out)
  \/ ClearCaches
  \/ \E d \in TickAmounts : Tick(d)
  \/ Steps

Spec == Init /\ [][Next]_vars

(***************************************************************************)
(* update_data                                                             *)
(***************************************************************************)
\* The list update_data is working on, and the asset it is at.
Assets == IF upc = "portfolio" THEN portfolio_assets ELSE watchlist_assets
Asset == Assets[idx]

\* The preferred_exchange update_data passes: none for a portfolio asset,
\* asset.get("preferred_exchange") for a watchlist asset.
PreferredOf(asset) ==
  IF "preferred_exchange" \in DOMAIN asset THEN asset.preferred_exchange ELSE ""

SameAsset == [symbol |-> "BTC/BTC", error |-> "Same asset"]

\* The entry appended for an asset.
Entry(asset, usdt, btc) ==
  [asset |-> asset.symbol, chain |-> asset.chain, usdt |-> usdt, btc |-> btc]

\* The states the venues can be in while update_data runs: at most MaxFaults are not up.
VenueStates ==
  UNION { { [v \in CcxtVenues |-> IF v \in D THEN f[v] ELSE "up"] :
              f \in [D -> {"down", "fetch_fails", "empty"}] } :
          D \in {E \in SUBSET CcxtVenues : Cardinality(E) <= MaxFaults} }

\* Mutant: an asset whose USD analysis failed gets no entry.
Appended_SkipsFailed(report, asset, usdt, btc) ==
  IF "error" \in DOMAIN usdt THEN report ELSE Append(report, Entry(asset, usdt, btc))

\* report.append({...}) for an asset.
Appended(report, asset, usdt, btc) == Append(report, Entry(asset, usdt, btc))

\* Mutant: BTC is analysed against BTC like any other asset.
SkipsBtcQuote_Never(list, asset) == FALSE

\* if asset["symbol"] == "BTC", a test the portfolio loop alone makes.
SkipsBtcQuote(list, asset) == list = "portfolio" /\ asset.symbol = "BTC"

\* The start of update_data: both caches are cleared, the reports are empty.
UpdateStart ==
  /\ upc \in {"idle", "done"}
  /\ pc \in {"Idle", "Done"}
  /\ cycles < MaxCycles
  /\ cycles' = cycles + 1
  /\ ohlcv_cache' = Clear(ohlcv_cache)
  /\ exchange_cache' = Clear(exchange_cache)
  /\ hist' = [k \in Keys |-> NoHist]
  /\ built' = [v \in CcxtVenues |-> -1]
  /\ portfolio_analysis' = << >>
  /\ watchlist_analysis' = << >>
  /\ usdt_analysis' = NoResult
  /\ upc' = "portfolio"
  /\ idx' = 1
  /\ pc' = "Idle"
  /\ req' = NoRequest
  /\ attempt' = 0
  /\ exchange' = "None"
  /\ token_ohlcv' = Absent
  /\ closes' = << >>
  /\ result' = NoResult
  /\ trace' = << >>
  /\ UNCHANGED << now, venue_state, otherVars, prev, last, lastBuild, events >>

\* usdt_analysis = get_trend_analysis(symbol, "USD", chain[, preferred_exchange])
RequestUsdt ==
  /\ upc \in {"portfolio", "watchlist"}
  /\ idx <= Len(Assets)
  /\ pc = "Idle"
  /\ usdt_analysis = NoResult
  /\ BeginCall(Request(Asset.symbol, "USD", Asset.chain, PreferredOf(Asset)))
  /\ UNCHANGED << cycleVars, countVars >>

\* The USD call returned.  For BTC in the portfolio the entry is appended with the
\* "Same asset" marker; otherwise the result is kept and update_data sleeps.
TakeUsdt ==
  /\ upc \in {"portfolio", "watchlist"}
  /\ pc = "Done"
  /\ usdt_analysis = NoResult
  /\ pc' = "Idle"
  /\ IF SkipsBtcQuote(upc, Asset)
       THEN /\ portfolio_analysis' = Appended(portfolio_analysis, Asset, result, SameAsset)
            /\ idx' = idx + 1
            /\ UNCHANGED << now, usdt_analysis >>
       ELSE /\ usdt_analysis' = result
            /\ now' = now + SLEEP
            /\ UNCHANGED << portfolio_analysis, idx >>
  /\ UNCHANGED << ohlcv_cache, exchange_cache, req, attempt, exchange, token_ohlcv, closes,
                  result, upc, watchlist_analysis, venue_state, otherVars, histVars, countVars >>

\* btc_analysis = get_trend_analysis(symbol, "BTC", chain[, preferred_exchange])
RequestBtc ==
  /\ upc \in {"portfolio", "watchlist"}
  /\ pc = "Idle"
  /\ usdt_analysis # NoResult
  /\ BeginCall(Request(Asset.symbol, "BTC", Asset.chain, PreferredOf(Asset)))
  /\ UNCHANGED << cycleVars, countVars >>

\* The BTC call returned: the asset's entry is appended.
TakeBtc ==
  /\ upc \in {"portfolio", "watchlist"}
  /\ pc = "Done"
  /\ usdt_analysis # NoResult
  /\ pc' = "Idle"
  /\ IF upc = "portfolio"
       THEN /\ portfolio_analysis' = Appended(portfolio_analysis, Asset, usdt_analysis, result)
            /\ UNCHANGED watchlist_analysis
       ELSE /\ watchlist_analysis' = Appended(watchlist_analysis, Asset, usdt_analysis, result)
            /\ UNCHANGED portfolio_analysis
  /\ usdt_analysis' = NoResult
  /\ idx' = idx + 1
  /\ UNCHANGED << now, ohlcv_cache, exchange_cache, venue_state, otherVars, req, attempt, exchange,
                  token_ohlcv, closes, result, upc, histVars, countVars >>

\* The portfolio loop is over: the watchlist loop starts.
StartWatchlist ==
  /\ upc = "portfolio"
  /\ idx > Len(portfolio_assets)
  /\ upc' = "watchlist"
  /\ idx' = 1
  /\ UNCHANGED << now, ohlcv_cache, exchange_cache, venue_state, otherVars, callVars, usdt_analysis,
                  portfolio_analysis, watchlist_analysis, histVars, countVars >>

\* The watchlist loop is over: the reports go to the template (not modelled).
UpdateDone ==
  /\ upc = "watchlist"
  /\ idx > Len(watchlist_assets)
  /\ upc' = "done"
  /\ UNCHANGED << now, ohlcv_cache, exchange_cache, venue_state, otherVars, callVars, idx, usdt_analysis,
                  portfolio_analysis, watchlist_analysis, histVars, countVars >>

NextCycle ==
  \/ UpdateStart
  \/ RequestUsdt
  \/ TakeUsdt
  \/ RequestBtc
  \/ TakeBtc
  \/ StartWatchlist
  \/ UpdateDone
  \/ Steps

InitCycle == Start /\ venue_state \in VenueStates

SpecCycle == InitCycle /\ [][NextCycle]_vars

\* update_data runs its statements one after the other, and each venue call
\* returns or raises: a step that can be taken is taken.  Compute can be taken
\* exactly when pc = "Computing" (Analysis is total), and it ends the call; its
\* fairness is stated on that change of pc.
StepsButCompute ==
  \/ UpdateStart
  \/ RequestUsdt
  \/ TakeUsdt
  \/ RequestBtc
  \/ TakeBtc
  \/ StartWatchlist
  \/ UpdateDone
  \/ ResolvePreferred
  \/ ResolveFixed
  \/ \E ok \in BOOLEAN : ConnectAttempt(ok)
  \/ ResolveExhausted
  \/ \E out \in TokenOutcomes : FetchToken(out)
  \/ \E out \in BtcOutcomes : FetchBtcRef(out)

Computed == pc = "Computing" /\ pc' = "Done"

SpecCycleLive ==
  InitCycle /\ [][NextCycle]_vars /\ WF_vars(StepsButCompute) /\ WF_pc(Computed)

(***************************************************************************)
(* get_cached_data called by two threads                                   *)
(***************************************************************************)
\* get_cached_data takes no lock and keeps no record of a fetch in progress.  Each
\* of its statements is a step of the thread that runs it:
\*   if key not in cache_store      Lookup
\*   fetch_func()                   Produce
\*   cache_store[key] = <data>      StoreData
\*   time.sleep(0.5)                Wake
\*   return cache_store[key]        ReturnStored
\* The keys the threads ask for, and what a producer can do.
ThreadKeys == {CacheKey("ETH", "USD"), BTC_PRICE_KEY}
ProducerOutcomes ==
  {Raised("NetworkError"), Returned([list |-> DefaultSeries]), Returned([list |-> << 2 >>])}

\* The variables the threads leave alone.
threadless == << exchange_cache, venue_state, callVars, cycleVars, histVars, countVars, applied >>

\* The callers that found `key` absent and have not stored a value for it yet.
Racing(t, key) ==
  {[caller |-> u, n |-> callers[u].n] :
     u \in {w \in Threads \ {t} : callers[w].key = key /\ callers[w].pc \in {"missed", "fetched"}}}

\* if key not in cache_store
Lookup(t, key) ==
  /\ callers[t].pc \in {"idle", "returned"}
  /\ callers[t].n < MaxCalls
  /\ callers' = [callers EXCEPT ![t] =
       [pc |-> IF Contains(ohlcv_cache, key, now) THEN "returning" ELSE "missed",
        key |-> key, n |-> callers[t].n + 1, invoked |-> FALSE,
        rivals |-> IF Contains(ohlcv_cache, key, now) THEN {} ELSE Racing(t, key)]]
  /\ UNCHANGED << now, ohlcv_cache, threadless >>

\* fetch_func(): it returns the data, or raises and the call returns {"error": str(e)}.
Produce(t, out) ==
  /\ callers[t].pc = "missed"
  /\ callers' = [callers EXCEPT ![t] =
       IF out.raised
         THEN [pc |-> "returned", key |-> @.key, n |-> @.n, invoked |-> TRUE,
               rivals |-> @.rivals, result |-> [error |-> out.msg]]
         ELSE [pc |-> "fetched", key |-> @.key, n |-> @.n, invoked |-> TRUE,
               rivals |-> @.rivals, data |-> out.value]]
  /\ UNCHANGED << now, ohlcv_cache, threadless >>

\* cache_store[key] = the data fetched
StoreData(t) ==
  /\ callers[t].pc = "fetched"
  /\ ohlcv_cache' = Store(ohlcv_cache, callers[t].key, callers[t].data, now, OHLCV_TTL)
  /\ callers' = [callers EXCEPT ![t] =
       [pc |-> "sleeping", key |-> @.key, n |-> @.n, invoked |-> TRUE, rivals |-> @.rivals]]
  /\ UNCHANGED << now, threadless >>

\* time.sleep(0.5) is over.
Wake(t) ==
  /\ callers[t].pc = "sleeping"
  /\ now' = now + SLEEP
  /\ callers' = [callers EXCEPT ![t].pc = "returning"]
  /\ UNCHANGED << ohlcv_cache, threadless >>

\* return cache_store[key]: what the cache holds now, whoever stored it; KeyError
\* if the entry is gone.
ReturnStored(t) ==
  /\ callers[t].pc = "returning"
  /\ callers' = [callers EXCEPT ![t] =
       [pc |-> "returned", key |-> @.key, n |-> @.n, invoked |-> @.invoked,
        rivals |-> @.rivals,
        result |-> IF Contains(ohlcv_cache, @.key, now)
                     THEN ohlcv_cache[@.key].value
                     ELSE [exception |-> "KeyError"]]]
  /\ UNCHANGED << now, ohlcv_cache, threadless >>

NextThreads ==
  \/ \E t \in Threads, key \in ThreadKeys : Lookup(t, key)
  \/ \E t \in Threads, out \in ProducerOutcomes : Produce(t, out)
  \/ \E t \in Threads : StoreData(t)
  \/ \E t \in Threads : Wake(t)
  \/ \E t \in Threads : ReturnStored(t)

SpecThreads == Init /\ [][NextThreads]_vars

(***************************************************************************)
(* The pure functions, applied to inputs of bounded size                   *)
(***************************************************************************)
\* The lists of at most n elements of S.
ListsOf(S, n) == UNION {[1..k -> S] : k \in 0..n}

\* The closes calculate_performance is applied to, and the look-backs in days.
PerformanceCloses == ListsOf({0, 100, 110}, MaxLen)
Days == {2, 7, 14}

\* The closes of the two series the BTC path divides.
TokenCloses == ListsOf({10, 20, 30}, MaxPair)
BtcCloses == ListsOf({0, 2, 4, 5}, MaxPair)

\* Each behaviour applies one function once, to inputs of its choice.
\* The variables an application leaves alone.
unapplied == << now, ohlcv_cache, exchange_cache, venue_state, callVars, cycleVars, histVars,
               countVars, callers >>

\* calculate_performance(closes, days)
ApplyPerformance(c, d) ==
  /\ applied' = [op |-> "calculate_performance", closes |-> c, days |-> d,
                 out |-> calculate_performance(Closes(c), d)]
  /\ UNCHANGED unapplied

\* The loop of lines 171-178 on a token series and a BTC series.
ApplyCrossRate(token, btc) ==
  /\ applied' = [op |-> "cross_rate", token |-> token, btc |-> btc,
                 out |-> CrossRate(token, btc)]
  /\ UNCHANGED unapplied

\* symbol_pair for an asset on an exchange.
ApplySymbolPair(base_symbol, exchange_id) ==
  /\ applied' = [op |-> "symbol_pair", base |-> base_symbol, exchange |-> exchange_id,
                 out |-> SymbolPair(base_symbol, exchange_id)]
  /\ UNCHANGED unapplied

\* The one application of a behaviour, its inputs drawn from the bounded sets.
PerformanceCall ==
  /\ applied = NotApplied
  /\ \E c \in PerformanceCloses, d \in Days : ApplyPerformance(c, d)

CrossRateCall ==
  /\ applied = NotApplied
  /\ \E token \in TokenCloses, btc \in BtcCloses : ApplyCrossRate(token, btc)

SymbolPairCall ==
  /\ applied = NotApplied
  /\ \E b \in Bases, v \in CcxtVenues : ApplySymbolPair(b, v)

NextFunctions ==
  \/ PerformanceCall
  \/ CrossRateCall
  \/ SymbolPairCall

SpecFunctions == Init /\ [][NextFunctions]_vars

(***************************************************************************)
(* The claims                                                              *)
(***************************************************************************)
\* The call that returned last found its key invoked before (since the last clear).
Repeated == last.called /\ last.prev.invoked

\* It began before / after the TTL of that earlier invocation ran out.
WithinTTL == last.start < last.prev.at + OHLCV_TTL

(* C1, as stated: any call with a key whose producer was invoked within the TTL,
   with no clear in between, invokes no producer and returns the value of that
   invocation; a call after the TTL invokes it again. *)
C1_OnceWithinTTL ==
  Repeated =>
    IF WithinTTL THEN last.hit /\ last.value = last.prev.value ELSE ~last.hit

(* C1, amended: once a producer invocation for a key has returned normally, every
   call with that key that begins within the TTL of the store, with no clear in
   between, invokes no producer and returns the stored value; the first call at
   or after the end of the TTL invokes the producer again. *)
C1_OnceWithinTTLOfStore ==
  (Repeated /\ ~last.prev.raised) =>
    IF WithinTTL THEN last.hit /\ last.value = last.prev.value ELSE ~last.hit

\* A call in the last half second of the TTL of a stored value is served from the cache.
C1_Witness ==
  /\ Repeated /\ ~last.prev.raised
  /\ last.start = last.prev.at + OHLCV_TTL - 1
  /\ last.hit /\ last.value = last.prev.value

(* C2, as stated: when the producer fails, the error is stored under the key, and
   every later call with the key within the TTL returns that error without
   invoking the producer. *)
C2_ErrorStored ==
  (Repeated /\ last.prev.raised /\ WithinTTL) =>
    (last.hit /\ last.value = last.prev.value)

(* C2, amended: when the producer raises, the call returns {"error": message} and
   nothing is stored under the key, so the next call with the key invokes the
   producer again; a failure that the producer returns as an error result (as
   fetch_analysis does) is stored, and the calls within the TTL return it
   without invoking the producer. *)
C2_RaisedNotStored ==
  /\ (last.called /\ ~last.hit /\ last.raised) =>
       /\ DOMAIN last.value = {"error"}
       /\ ~Contains(ohlcv_cache, last.key, now)
  /\ (Repeated /\ last.prev.raised) => ~last.hit
  /\ (Repeated /\ ~last.prev.raised /\ "error" \in DOMAIN last.prev.value /\ WithinTTL) =>
       (last.hit /\ last.value = last.prev.value)

\* A call right after one whose producer raised, and the producer raising again.
C2_Witness ==
  Repeated /\ last.prev.raised /\ WithinTTL /\ ~last.hit /\ last.raised

(* C9, as stated: a venue handle is constructed at most once within the handle
   TTL, unless the caches were cleared in between. *)
C9_HandleBuiltOnce ==
  (lastBuild.venue # "None" /\ lastBuild.prevAt >= 0) =>
    lastBuild.at >= lastBuild.prevAt + EXCHANGE_TTL

(* C10, as stated: every call that misses and invokes the producer sleeps the
   inter-fetch delay before it returns, whether the producer succeeded or
   failed. *)
C10_DelayAfterEveryMiss ==
  (last.called /\ ~last.hit) => last.slept >= SLEEP

\* The venue calls of the call: the turns of the loop, and the fetches.
Connects(tr) == SelectSeq(tr, LAMBDA e : e.op = "connect")
Fetches(tr) == SelectSeq(tr, LAMBDA e : e.op = "fetch")
Constructs(tr) == SelectSeq(tr, LAMBDA e : e.op = "construct")

\* A get_trend_analysis call that missed is in progress / has returned.
InProgress == pc \in {"ResolvingVenue", "Fetching", "Computing"}
Finished == pc = "Done" /\ req # NoRequest /\ last.called /\ ~last.hit

\* The call is for an asset with a fallback list and no preferred exchange.
UsesList == req.pref = "" /\ ExchangesToTry(req.base) # << >>

IsError(res) == "error" \in DOMAIN res /\ res.error # ""
NoIndicators(res) == DOMAIN res \cap {"current_price", "ema8", "ema20", "is_uptrend"} = {}
Populated(res) ==
  /\ {"current_price", "ema8", "ema20", "is_uptrend", "exchange"} \subseteq DOMAIN res
  /\ "error" \notin DOMAIN res

\* The fetch returned no candle / did not return candles.
EmptyFetch(e) == ~e.out.raised /\ e.out.value = << >>
FailedFetch(e) == e.out.raised \/ e.out.value = << >>

(* C3, as stated: for an asset with a fallback list an error result is emitted
   only if every candidate of the list has been tried and has failed (a candidate
   that connects but returns no data does not end the search). *)
C3_ErrorOnlyWhenAllFailed ==
  (Finished /\ UsesList /\ IsError(result)) => attempt = Len(ExchangesToTry(req.base))

(* C3, amended: for an asset with a fallback list the venue used is the first
   candidate that connects (whose load_markets succeeds), and the search ends
   there: if the fetch from that venue fails or returns an empty series the
   result is an error result that names that venue, and no later candidate is
   tried; an error result that names no venue is emitted only if every candidate
   failed to connect. *)
C3_FirstThatConnects ==
  (Finished /\ UsesList) =>
    LET list == ExchangesToTry(req.base)
        cs == Connects(trace)
        fs == Fetches(trace)
    IN  /\ \A i \in 1..Len(cs) : trace[i] = cs[i]
        /\ IF exchange = "None"
             THEN /\ Len(cs) = Len(list)
                  /\ \A i \in 1..Len(cs) : ~cs[i].ok
                  /\ fs = << >>
                  /\ IsError(result) /\ NoIndicators(result)
                  /\ "exchange" \notin DOMAIN result
             ELSE /\ cs # << >>
                  /\ cs[Len(cs)].ok /\ cs[Len(cs)].venue = exchange
                  /\ \A i \in 1..(Len(cs) - 1) : ~cs[i].ok
                  /\ fs # << >> /\ fs[1].venue = exchange
                  /\ result.exchange = exchange
                  /\ FailedFetch(fs[1]) => (IsError(result) /\ NoIndicators(result) /\ Len(fs) = 1)

\* The first candidate connects, its fetch gives nothing, the later ones are not tried.
C3_Witness ==
  /\ Finished /\ UsesList
  /\ attempt = 1 /\ exchange = ExchangesToTry(req.base)[1]
  /\ EmptyFetch(Fetches(trace)[1])
  /\ IsError(result) /\ result.exchange = exchange

(* C4: the venues of a fallback list are tried in list order, each at most once
   in a resolution, and none after one has connected; the result's exchange
   field is the venue that connected (C of [A,B,C] when A and B failed). *)
C4_InListOrder ==
  ((InProgress \/ Finished) /\ UsesList) =>
    LET list == ExchangesToTry(req.base)
        cs == Connects(trace)
    IN  /\ Len(cs) = attempt /\ Len(cs) <= Len(list)
        /\ \A i \in 1..Len(cs) : cs[i].venue = list[i]
        /\ \A i \in 1..(Len(cs) - 1) : ~cs[i].ok
        /\ (cs # << >> /\ cs[Len(cs)].ok) =>
             /\ exchange = cs[Len(cs)].venue
             /\ pc = "Done" => result.exchange = exchange

\* A and B fail to connect, C connects: the result names C.
C4_Witness ==
  /\ Finished /\ req.pref = "" /\ req.base = "NATIX"
  /\ Connects(trace) = << [op |-> "connect", venue |-> "kucoin", ok |-> FALSE],
                          [op |-> "connect", venue |-> "gate", ok |-> FALSE],
                          [op |-> "connect", venue |-> "mexc", ok |-> TRUE] >>
  /\ result.exchange = "mexc"

(* C7: with a preferred venue the resolution constructs that venue alone and
   consults no fallback list; if it cannot be constructed, or its fetch fails or
   returns nothing, no other venue is asked for the asset's series and the
   result is an error result. *)
C7_PreferredOnly ==
  ((InProgress \/ Finished) /\ req.pref # "") =>
    LET cons == Constructs(trace)
        fs == Fetches(trace)
    IN  /\ Connects(trace) = << >>
        /\ Len(cons) <= 1
        /\ \A i \in 1..Len(cons) : cons[i].venue = req.pref
        /\ \A i \in 1..Len(fs) :
             \/ i = 1 /\ fs[i].venue = req.pref /\ cons # << >> /\ cons[1].ok
             \/ /\ i = 2 /\ req.quote = "BTC" /\ ~FailedFetch(fs[1])
                /\ fs[i].venue = "coinbase" /\ fs[i].symbol = "BTC/USD"
        /\ pc = "Done" =>
             /\ Len(cons) = 1
             /\ cons[1].ok => (fs # << >> /\ result.exchange = req.pref)
             /\ (~cons[1].ok \/ FailedFetch(fs[1])) =>
                  (IsError(result) /\ NoIndicators(result) /\ Len(fs) <= 1)

\* An asset that has a fallback list is asked for on its preferred venue, whose
\* fetch raises: the result is that venue's error.
C7_Witness ==
  /\ Finished /\ req.pref = "mexc" /\ ExchangesToTry(req.base) # << >>
  /\ Len(Fetches(trace)) = 1 /\ Fetches(trace)[1].out.raised
  /\ IsError(result) /\ result.exchange = "mexc"

(* C8: on both paths, if the asset's series is empty, or the cross-rate series is
   empty because the BTC reference series is empty, the result is an error
   result without current_price, ema8 and ema20; a result with indicators comes
   from closes that are not empty. *)
C8_NoIndicatorsOnEmpty ==
  Finished =>
    LET fs == Fetches(trace)
    IN  /\ (\E i \in 1..Len(fs) : EmptyFetch(fs[i])) => (IsError(result) /\ NoIndicators(result))
        /\ ~NoIndicators(result) => closes # << >>

\* The asset's series has candles and the BTC reference series has none.
C8_Witness ==
  /\ Finished /\ req.quote = "BTC"
  /\ Len(Fetches(trace)) = 2
  /\ ~FailedFetch(Fetches(trace)[1]) /\ EmptyFetch(Fetches(trace)[2])
  /\ closes = << >>
  /\ IsError(result) /\ NoIndicators(result)

\* The configured asset of a symbol, and the entries of both reports.
ConfiguredAssets == Range(portfolio_assets) \cup Range(watchlist_assets)
ConfigOf(symbol) == CHOOSE a \in ConfiguredAssets : a.symbol = symbol
AllEntries == portfolio_analysis \o watchlist_analysis

\* The venue an asset's series comes from, the venues being as venue_state says:
\* the preferred one, the fixed one, or the first of the list that is not down.
RECURSIVE FirstNotDown(_, _)
FirstNotDown(list, i) ==
  IF i > Len(list) THEN "None"
  ELSE IF venue_state[list[i]] # "down" THEN list[i]
  ELSE FirstNotDown(list, i + 1)

VenueOf(asset) ==
  IF PreferredOf(asset) # "" THEN PreferredOf(asset)
  ELSE IF ExchangesToTry(asset.symbol) = << >> THEN FixedExchange(asset.symbol)
  ELSE FirstNotDown(ExchangesToTry(asset.symbol), 1)

(* C5: in a cycle, an asset whose fallback venues all fail to connect gets error
   results without current_price, while every asset whose venue is up gets a
   fully populated USD result from that venue, and, the BTC reference venue
   being up too, a fully populated BTC result. *)
C5_FailureIsolated ==
  \A i \in 1..Len(AllEntries) :
    LET e == AllEntries[i]
        v == VenueOf(ConfigOf(e.asset))
    IN  /\ v = "None" =>
             /\ IsError(e.usdt) /\ "current_price" \notin DOMAIN e.usdt
             /\ IsError(e.btc) /\ "current_price" \notin DOMAIN e.btc
        /\ (v # "None" /\ venue_state[v] = "up") =>
             /\ Populated(e.usdt) /\ e.usdt.exchange = v
             /\ (e.asset # "BTC" /\ venue_state["coinbase"] = "up") =>
                  (Populated(e.btc) /\ e.btc.exchange = v)

\* A finished cycle in which FAI found no venue and every other asset is populated.
C5_Witness ==
  /\ upc = "done"
  /\ \A i \in 1..Len(AllEntries) :
       LET e == AllEntries[i]
       IN  IF e.asset = "FAI"
             THEN /\ VenueOf(ConfigOf("FAI")) = "None"
                  /\ IsError(e.usdt) /\ IsError(e.btc)
             ELSE /\ Populated(e.usdt)
                  /\ e.asset # "BTC" => Populated(e.btc)
  /\ \E i \in 1..Len(AllEntries) : AllEntries[i].asset = "FAI"

\* The entries of a report are those of the first n configured assets, in order.
EntriesOf(report, assets, n) ==
  /\ Len(report) = n
  /\ \A i \in 1..n :
       /\ DOMAIN report[i] = {"asset", "chain", "usdt", "btc"}
       /\ report[i].asset = assets[i].symbol
       /\ report[i].chain = assets[i].chain
       /\ IsError(report[i].usdt) \/ Populated(report[i].usdt)
       /\ IsError(report[i].btc) \/ Populated(report[i].btc)

(* C6: whatever the venues do, each report holds one entry per configured asset
   processed so far, in configuration order, each with a USD result and a BTC
   result; at the end of the cycle each report holds exactly one entry per
   configured asset. *)
C6_OneEntryPerAsset ==
  CASE upc = "idle" -> portfolio_analysis = << >> /\ watchlist_analysis = << >>
    [] upc = "portfolio" ->
         /\ EntriesOf(portfolio_analysis, portfolio_assets, idx - 1)
         /\ watchlist_analysis = << >>
    [] upc = "watchlist" ->
         /\ EntriesOf(portfolio_analysis, portfolio_assets, Len(portfolio_assets))
         /\ EntriesOf(watchlist_analysis, watchlist_assets, idx - 1)
    [] upc = "done" ->
         /\ EntriesOf(portfolio_analysis, portfolio_assets, Len(portfolio_assets))
         /\ EntriesOf(watchlist_analysis, watchlist_assets, Len(watchlist_assets))

\* A finished cycle with failures in both reports, before and after assets that succeeded.
C6_Witness ==
  /\ upc = "done"
  /\ Len(portfolio_analysis) = Len(portfolio_assets)
  /\ Len(watchlist_analysis) = Len(watchlist_assets)
  /\ IsError(portfolio_analysis[4].usdt) /\ Populated(portfolio_analysis[5].usdt)
  /\ IsError(watchlist_analysis[2].usdt) /\ Populated(watchlist_analysis[3].usdt)

(* C11, as stated: when two callers call get_cached_data for the same key while
   the key is absent, the producer is invoked once and both callers receive its
   result. *)
C11_Coalesced ==
  \A t \in Threads : \A rv \in callers[t].rivals :
    LET me == callers[t]
        other == callers[rv.caller]
    IN  (other.n = rv.n /\ me.pc = "returned" /\ other.pc = "returned") =>
          /\ ~(me.invoked /\ other.invoked)
          /\ me.result = other.result

\* The series of the example: seven closes of 100, then 110.
ExampleCloses == << 100, 100, 100, 100, 100, 100, 100, 110 >>

(* C12: calculate_performance(closes, d) is None exactly when len(closes) < d or
   closes[len - d] is 0; otherwise it is (last - closes[len - d]) / closes[len - d]
   * 100; the closes 100 (seven times), 110 with d = 7 give 10. *)
C12_Performance ==
  applied.op = "calculate_performance" =>
    LET c == applied.closes
        d == applied.days
        n == Len(c)
        absent == n < d \/ c[n - d + 1] = 0
        out == applied.out
    IN  /\ (out = NoneNum) <=> absent
        /\ ~absent =>
             /\ Len(out) = 2 /\ out[2] > 0
             /\ out[1] * c[n - d + 1] = (c[n] - c[n - d + 1]) * 100 * out[2]
        /\ (c = ExampleCloses /\ d = 7) => out = << 10, 1 >>

\* The example has been computed.
C12_Witness ==
  /\ applied.op = "calculate_performance"
  /\ applied.closes = ExampleCloses /\ applied.days = 7
  /\ applied.out = << 10, 1 >>

(* C13: the cross-rate series has the length of the shorter of the two series,
   and its i-th element is the token's i-th close over BTC's i-th close, both
   counted from the start; 10, 20, 30 against 2, 4, 5 give 5, 5, 6. *)
C13_CrossRate ==
  (applied.op = "cross_rate" /\ ~applied.out.raised) =>
    LET token == applied.token
        btc == applied.btc
        out == applied.out.value
    IN  /\ Len(out) = IF Len(token) <= Len(btc) THEN Len(token) ELSE Len(btc)
        /\ \A i \in 1..Len(out) :
             /\ btc[i] # 0 /\ out[i][2] > 0
             /\ out[i][1] * btc[i] = token[i] * out[i][2]
        /\ (token = << 10, 20, 30 >> /\ btc = << 2, 4, 5 >>) =>
             out = << << 5, 1 >>, << 5, 1 >>, << 6, 1 >> >>

\* A longer token series against a shorter BTC series: the first closes are paired.
C13_Witness ==
  /\ applied.op = "cross_rate" /\ ~applied.out.raised
  /\ applied.token = << 10, 20, 30 >> /\ applied.btc = << 5, 2 >>
  /\ applied.out.value = << << 2, 1 >>, << 10, 1 >> >>

\* The pair the claim gives an asset on a venue: USD on coinbase, USDT elsewhere,
\* written with the venue's delimiter.
PairAsClaimed(base_symbol, exchange_id) ==
  CASE exchange_id = "coinbase" -> base_symbol \o "/USD"
    [] base_symbol = "NATIX" /\ exchange_id = "kucoin" -> "NATIX-USDT"
    [] base_symbol = "NATIX" /\ exchange_id = "gate" -> "NATIX_USDT"
    [] base_symbol = "BANANA" /\ exchange_id = "gate" -> "BANANA_USDT"
    [] OTHER -> base_symbol \o "/USDT"

(* C20, as stated: for every asset and every venue the resolver can select for
   it, by its list or by a preferred venue, the pair fetched is quoted in USD
   exactly when the venue is coinbase and in USDT otherwise, with the venue's
   delimiter. *)
C20_QuoteFollowsVenue ==
  applied.op = "symbol_pair" => applied.out = PairAsClaimed(applied.base, applied.exchange)

\* The results get_trend_analysis has returned or stored: the last one, and the cached ones.
ReturnedResults ==
  (IF pc = "Done" /\ req # NoRequest THEN {result} ELSE {})
    \cup {ohlcv_cache[k].value :
            k \in {k2 \in Keys \ {BTC_PRICE_KEY} : ohlcv_cache[k2].present}}

(* C14: in every success result is_uptrend is true exactly when ema8 is strictly
   greater than ema20, and trend_text is "Uptrend" exactly when is_uptrend is
   true and "Downtrend" otherwise; equal averages are a downtrend. *)
C14_StrictUptrend ==
  \A res \in ReturnedResults :
    Populated(res) =>
      /\ res.is_uptrend <=> (res.ema8[1] * res.ema20[2] > res.ema20[1] * res.ema8[2])
      /\ res.trend_text = (IF res.is_uptrend THEN "Uptrend" ELSE "Downtrend")
      /\ res.ema8 = res.ema20 => res.trend_text = "Downtrend"

\* A success result whose two averages are equal (closes of a single candle).
C14_Witness ==
  /\ Finished /\ Populated(result)
  /\ result.ema8 = result.ema20
  /\ ~result.is_uptrend /\ result.trend_text = "Downtrend"

\* The producer of a key has run in the current cycle.
Analysed(symbol, quote) == hist[CacheKey(symbol, quote)].invoked

(* C15: for BTC the entry's BTC slot is the "Same asset" marker and nothing is
   ever looked up, fetched or stored under BTC_BTC; for every other asset of
   either list the USD analysis and the BTC analysis are both requested, the USD
   one first. *)
C15_BtcAgainstBtcSkipped ==
  /\ ~(req.base = "BTC" /\ req.quote = "BTC")
  /\ ~Analysed("BTC", "BTC") /\ ~ohlcv_cache[CacheKey("BTC", "BTC")].present
  /\ (pc # "Idle" /\ req.quote = "BTC") =>
       /\ usdt_analysis # NoResult
       /\ Analysed(req.base, "USD")
       /\ hist[CacheKey(req.base, "USD")].value = usdt_analysis
  /\ \A i \in 1..Len(AllEntries) :
       LET e == AllEntries[i]
       IN  IF e.asset = "BTC"
             THEN e.btc = SameAsset /\ Analysed("BTC", "USD")
             ELSE /\ e.btc # SameAsset
                  /\ Analysed(e.asset, "USD") /\ Analysed(e.asset, "BTC")
                  /\ hist[CacheKey(e.asset, "USD")].at < hist[CacheKey(e.asset, "BTC")].at
                  /\ e.usdt = hist[CacheKey(e.asset, "USD")].value
                  /\ e.btc = hist[CacheKey(e.asset, "BTC")].value

\* A finished cycle: BTC's entry carries the marker, every other has two analyses.
C15_Witness ==
  /\ upc = "done"
  /\ Len(AllEntries) = Len(portfolio_assets) + Len(watchlist_assets)
  /\ AllEntries[1].asset = "BTC" /\ AllEntries[1].btc = SameAsset
  /\ ~Analysed("BTC", "BTC")
  /\ \A i \in 2..Len(AllEntries) :
       Analysed(AllEntries[i].asset, "USD") /\ Analysed(AllEntries[i].asset, "BTC")

\* update_data has cleared the caches and has not asked for an analysis yet.
CycleJustStarted == upc = "portfolio" /\ idx = 1 /\ pc = "Idle" /\ usdt_analysis = NoResult

(* C16: every run of update_data empties both caches before it processes an
   asset, so that, over any number of cycles, every analysis of a cycle missed
   the cache and ran its producer in that cycle, for the first and only time in
   the cycle, and the reports hold what those runs returned. *)
C16_FreshEveryCycle ==
  /\ CycleJustStarted =>
       /\ \A k \in Keys : ~ohlcv_cache[k].present
       /\ \A v \in CcxtVenues : ~exchange_cache[v].present
  /\ (upc \in {"portfolio", "watchlist"} /\ pc = "Done") =>
       /\ last.called /\ last.key = ReqKey
       /\ ~last.hit /\ ~last.prev.invoked
       /\ hist[ReqKey].invoked /\ hist[ReqKey].value = result
  /\ \A i \in 1..Len(AllEntries) :
       LET e == AllEntries[i]
       IN  /\ hist[CacheKey(e.asset, "USD")].invoked
           /\ e.usdt = hist[CacheKey(e.asset, "USD")].value
           /\ e.asset # "BTC" =>
                /\ hist[CacheKey(e.asset, "BTC")].invoked
                /\ e.btc = hist[CacheKey(e.asset, "BTC")].value

\* A second cycle has finished before anything the first one stored could expire.
C16_Witness ==
  /\ cycles = 2 /\ upc = "done"
  /\ now < OHLCV_TTL
  /\ last.called /\ ~last.hit
  /\ Len(AllEntries) = Len(portfolio_assets) + Len(watchlist_assets)

\* The moves of a request: forward along Idle, ResolvingVenue, Fetching, Computing,
\* Done, an error ending it at Done from ResolvingVenue or Fetching; Done is left
\* for Idle when update_data takes the result.
PcMoves ==
  { << "Idle", "ResolvingVenue" >>,
    << "ResolvingVenue", "ResolvingVenue" >>, << "ResolvingVenue", "Fetching" >>,
    << "ResolvingVenue", "Done" >>,
    << "Fetching", "Fetching" >>, << "Fetching", "Computing" >>, << "Fetching", "Done" >>,
    << "Computing", "Done" >>,
    << "Done", "Idle" >>, << "Idle", "Idle" >>, << "Done", "Done" >> }

PcForward ==
  /\ << pc, pc' >> \in PcMoves
  /\ (pc # "Computing" /\ pc' = "Done" /\ pc # "Done") => IsError(result')
  /\ (pc = "Computing" /\ pc' = "Done") => (IsError(result') \/ Populated(result'))

(* C17: in a cycle every request moves along Idle, ResolvingVenue, Fetching,
   Computing, Done, ending at Done with a success or an error result whatever
   the venues do, every request in progress reaches Done, and every cycle that
   has started ends with all configured assets processed. *)
C17_RunsToDone ==
  /\ [][PcForward]_vars
  /\ InProgress ~> (pc = "Done")
  /\ (upc \in {"portfolio", "watchlist"}) ~>
       (upc = "done" /\ Len(AllEntries) = Len(portfolio_assets) + Len(watchlist_assets))

\* The first cycle is over with a failed asset and an analysed one in its reports.
C17_Witness ==
  /\ upc = "done" /\ cycles = 1
  /\ Len(AllEntries) = Len(portfolio_assets) + Len(watchlist_assets)
  /\ \E i \in 1..Len(AllEntries) : IsError(AllEntries[i].usdt)
  /\ \E i \in 1..Len(AllEntries) : Populated(AllEntries[i].usdt)

(* C18: every value get_trend_analysis returns is either an error result (an
   error that is not empty, none of current_price, ema8, ema20, is_uptrend) or a
   success result (current_price, ema8, ema20, is_uptrend and exchange, no
   error), never a mix; and an error result produced after an exchange handle
   was obtained carries that exchange's id. *)
C18_ErrorOrSuccess ==
  /\ \A res \in ReturnedResults :
       \/ IsError(res) /\ NoIndicators(res)
       \/ Populated(res)
  /\ (Finished /\ IsError(result) /\ exchange # "None") =>
       ("exchange" \in DOMAIN result /\ result.exchange = exchange)

\* An error result that names its exchange is returned while a success result is cached.
C18_Witness ==
  /\ Finished /\ IsError(result) /\ NoIndicators(result)
  /\ exchange # "None" /\ result.exchange = exchange
  /\ \E k \in Keys \ {BTC_PRICE_KEY, ReqKey} :
       ohlcv_cache[k].present /\ Populated(ohlcv_cache[k].value)

(* C19, as stated: a success result returned for a call made with a preferred
   venue V reports exchange = V, whatever calls came before for the same asset
   and quote currency. *)
C19_ReportsPreferred ==
  (pc = "Done" /\ req.pref # "" /\ Populated(result)) => result.exchange = req.pref

====
